---- MODULE Spec2Model ----
(***************************************************************************)
(* aiohttp-csrf: token storage lifecycle (storage.py) and verification     *)
(* policies (policy.py), as a state machine over sequential requests.      *)
(*                                                                         *)
(* Python values are records [t, v]: t is the Python type, v the content   *)
(* as a sequence of code points (str) or of octets (bytes).                *)
(***************************************************************************)
EXTENDS Naturals, Sequences, FiniteSets, TLC

\* ------------------------------------------------------------------ bounds
\* Number of requests one run serves, one after the other.
MaxRequests == 3

\* Requests served in a run where the backend may fail.
MaxFaultRequests == 2

\* Calls of get or generate_new_token a concurrent handler makes before its
\* save_token.
MaxTaskCalls == 1

\* Requests one run of the pipeline serves.
MaxPipeRequests == 3

\* ------------------------------------------------------------ Python values
PyNone == [t |-> "None", v |-> <<>>]
\* A key that is not in a mapping (cookies, session, request, store).
Absent == [t |-> "absent", v |-> <<>>]
Str(s) == [t |-> "str", v |-> s]
Bytes(b) == [t |-> "bytes", v |-> b]
PyBool(b) == [t |-> "bool", v |-> IF b THEN <<1>> ELSE <<0>>]
PyTrue == PyBool(TRUE)
PyFalse == PyBool(FALSE)

\* Python truthiness of a value (None, empty str and empty bytes are falsy).
Truthy(x) ==
  CASE x.t = "None" -> FALSE
    [] x.t = "bool" -> x.v = <<1>>
    [] OTHER -> Len(x.v) > 0

\* mapping.get(key, None): an absent key reads as None.
DictGet(entry) == IF entry = Absent THEN PyNone ELSE entry

\* Outcome of a call: a returned value or a raised exception.
Ret(x) == [kind |-> "return", value |-> x, exc |-> ""]
Raise(e) == [kind |-> "raise", value |-> PyNone, exc |-> e]

IsAscii(s) == \A i \in 1..Len(s) : s[i] < 128

RECURSIVE Utf8Encode(_)
\* str.encode('utf-8') for code points below 2048.
Utf8Encode(s) ==
  IF s = <<>> THEN <<>>
  ELSE LET c == Head(s)
       IN (IF c < 128 THEN <<c>>
           ELSE <<192 + (c \div 64), 128 + (c % 64)>>) \o Utf8Encode(Tail(s))

RECURSIVE Utf8Decode(_)
\* bytes.decode() of well-formed one- and two-octet sequences.
Utf8Decode(b) ==
  IF b = <<>> THEN <<>>
  ELSE IF Head(b) < 128 THEN <<Head(b)>> \o Utf8Decode(Tail(b))
  ELSE <<(Head(b) - 192) * 64 + (b[2] - 128)>> \o Utf8Decode(Tail(Tail(b)))

\* Comparison by plain equality: None equals None.
compare_equal(a, b) == Ret(PyBool(a = b))

\* secrets.compare_digest(a, b): both str (ASCII only) or both bytes,
\* TypeError otherwise; equality of the contents when it answers.
compare_digest(a, b) ==
  IF a.t = "str" /\ b.t = "str"
  THEN IF IsAscii(a.v) /\ IsAscii(b.v) THEN Ret(PyBool(a.v = b.v))
       ELSE Raise("TypeError")
  ELSE IF a.t = "bytes" /\ b.t = "bytes" THEN Ret(PyBool(a.v = b.v))
  ELSE Raise("TypeError")

\* ------------------------------------------------------------ token generator
\* TokenGenerator.generate(): the n-th token the generator hands out. Tokens
\* are non-empty printable ASCII strings and no two calls give the same one.
Generate(n) == Str(<<48 + n>>)

\* ------------------------------------------------------------------ policies
FormPolicy == "FormPolicy"
HeaderPolicy == "HeaderPolicy"
FormAndHeaderPolicy == "FormAndHeaderPolicy"
Policies == {FormPolicy, HeaderPolicy, FormAndHeaderPolicy}

\* What a check did: its outcome, whether it read the path parameters and
\* whether it awaited request.post().
Verdict(r, m, p) == [result |-> r, matchRead |-> m, postAwaited |-> p]

\* A path parameter only counts when it is truthy (the plausible slip of
\* writing "if get" for "if get is not None").
FormPolicyCheckTruthy(request, original_value) ==
  LET get == DictGet(request.match_info)
      token == IF Truthy(get) THEN get ELSE DictGet(request.post)
  IN Verdict(compare_digest(token, original_value), TRUE, ~Truthy(get))

\* FormPolicy.check
FormPolicyCheck(request, original_value) ==
  LET get == DictGet(request.match_info)
      awaited == get = PyNone
      token == IF get # PyNone THEN get ELSE DictGet(request.post)
  IN Verdict(compare_digest(token, original_value), TRUE, awaited)

\* The header is compared by truthiness instead of by content.
HeaderPolicyCheckAnyHeader(request, original_value) ==
  LET token == DictGet(request.headers)
  IN Verdict(Ret(PyBool(Truthy(token) /\ Truthy(original_value))), FALSE, FALSE)

\* HeaderPolicy.check
HeaderPolicyCheck(request, original_value) ==
  LET token == DictGet(request.headers)
  IN Verdict(compare_digest(token, original_value), FALSE, FALSE)

\* The form is consulted before the header.
FormAndHeaderPolicyCheckFormFirst(request, original_value) ==
  LET f == FormPolicyCheck(request, original_value)
      h == HeaderPolicyCheck(request, original_value)
  IN IF f.result.kind = "raise" THEN f
     ELSE IF Truthy(f.result.value) THEN Verdict(Ret(PyTrue), TRUE, f.postAwaited)
     ELSE IF h.result.kind = "raise" THEN Verdict(h.result, TRUE, f.postAwaited)
     ELSE Verdict(Ret(PyBool(Truthy(h.result.value))), TRUE, f.postAwaited)

\* FormAndHeaderPolicy.check
FormAndHeaderPolicyCheck(request, original_value) ==
  LET h == HeaderPolicyCheck(request, original_value)
      f == FormPolicyCheck(request, original_value)
  IN IF h.result.kind = "raise" THEN h
     ELSE IF Truthy(h.result.value) THEN Verdict(Ret(PyTrue), FALSE, FALSE)
     ELSE IF f.result.kind = "raise" THEN f
     ELSE Verdict(Ret(PyBool(Truthy(f.result.value))), f.matchRead, f.postAwaited)

\* policy.check(request, original_value) of the configured policy.
PolicyCheck(policy, request, original_value) ==
  CASE policy = FormPolicy -> FormPolicyCheck(request, original_value)
    [] policy = HeaderPolicy -> HeaderPolicyCheck(request, original_value)
    [] OTHER -> FormAndHeaderPolicyCheck(request, original_value)

\* ------------------------------------------------------------------- storage
CookieStorage == "CookieStorage"
SessionStorage == "SessionStorage"
RedisSessionStorage == "RedisSessionStorage"
StorageKinds == {CookieStorage, SessionStorage, RedisSessionStorage}

\* REQUEST_NEW_TOKEN_KEY in request
HasNewToken(request) == request.new_token # Absent

\* isinstance(x, AbstractTokenGenerator)
IsTokenGenerator(x) ==
  x.t \in {"HashedTokenGenerator", "SimpleTokenGenerator", "CustomTokenGenerator"}

\* HashedTokenGenerator(secret_phrase)
HashedTokenGenerator(secret_phrase) ==
  [t |-> "HashedTokenGenerator", v |-> secret_phrase.v]

\* The type of a supplied generator is not checked.
BaseStorageInitUnchecked(token_generator, secret_phrase) ==
  IF token_generator = PyNone
  THEN IF secret_phrase = PyNone
       THEN [result |-> Raise("TypeError"), token_generator |-> Absent]
       ELSE [result |-> Ret(PyNone),
             token_generator |-> HashedTokenGenerator(secret_phrase)]
  ELSE [result |-> Ret(PyNone), token_generator |-> token_generator]

\* BaseStorage.__init__: the outcome and the token_generator attribute.
BaseStorageInit(token_generator, secret_phrase) ==
  IF token_generator = PyNone
  THEN IF secret_phrase = PyNone
       THEN [result |-> Raise("TypeError"), token_generator |-> Absent]
       ELSE [result |-> Ret(PyNone),
             token_generator |-> HashedTokenGenerator(secret_phrase)]
  ELSE IF ~IsTokenGenerator(token_generator)
  THEN [result |-> Raise("TypeError"), token_generator |-> Absent]
  ELSE [result |-> Ret(PyNone), token_generator |-> token_generator]

\* A new token is generated on every call.
GenerateNewTokenAlways(request, issued) ==
  [ret |-> Generate(issued + 1), new_token |-> Generate(issued + 1),
   issued |-> issued + 1]

\* BaseStorage.generate_new_token: the returned token, the request's scratch
\* slot afterwards and the number of tokens the generator has handed out.
GenerateNewToken(request, issued) ==
  IF HasNewToken(request)
  THEN [ret |-> request.new_token, new_token |-> request.new_token,
        issued |-> issued]
  ELSE LET token == Generate(issued + 1)
       IN [ret |-> token, new_token |-> token, issued |-> issued + 1]

\* cookie_name of CookieStorage ("c").
cookie_name == <<99>>

\* session_name of SessionStorage and RedisSessionStorage ("csrf").
session_name == <<99, 115, 114, 102>>

\* redis_pool.get(key): the stored bytes, or None for a key never set.
StoreLookup(kv, key) == IF key \in DOMAIN kv THEN kv[key] ELSE PyNone

\* redis_pool.set(key, value): the store keeps the value's UTF-8 bytes.
StoreSet(kv, key, value) ==
  [k \in DOMAIN kv \cup {key} |->
     IF k = key THEN Bytes(Utf8Encode(value.v)) ELSE kv[k]]

\* All requests share one store key, whatever their identifier.
get_key_shared(request) == session_name

\* RedisSessionStorage.get_key: f"{session_name}_{request['token']}"
get_key(request) == session_name \o <<95>> \o request.token.v

\* The stored bytes are returned without decoding.
RedisGetRaw(request, kv) ==
  IF request.token = Absent
  THEN [result |-> Raise("KeyError"), reads |-> {}]
  ELSE LET token == StoreLookup(kv, get_key(request))
       IN [result |-> Ret(IF Truthy(token) THEN token ELSE PyNone),
           reads |-> {get_key(request)}]

\* CookieStorage._get
CookieGet(request) == [result |-> Ret(DictGet(request.cookies)), reads |-> {}]

\* SessionStorage._get
SessionGet(session) == [result |-> Ret(DictGet(session)), reads |-> {}]

\* RedisSessionStorage._get: the key is computed before the store is asked.
RedisGet(request, kv) ==
  IF request.token = Absent
  THEN [result |-> Raise("KeyError"), reads |-> {}]
  ELSE LET token == StoreLookup(kv, get_key(request))
       IN [result |-> Ret(IF Truthy(token) THEN Str(Utf8Decode(token.v))
                          ELSE PyNone),
           reads |-> {get_key(request)}]

\* storage._get(request) of the configured backend.
BackendGet(kind, request, session, kv) ==
  CASE kind = CookieStorage -> CookieGet(request)
    [] kind = SessionStorage -> SessionGet(session)
    [] OTHER -> RedisGet(request, kv)

\* The effect of a backend write: outcome, the response's cookie, the session
\* entry, the store and the store keys written.
Effect(r, c, s, k, w) ==
  [result |-> r, set_cookie |-> c, session |-> s, kv |-> k, writes |-> w]

\* CookieStorage._save_token: response.set_cookie(cookie_name, token)
CookieSave(response, session, kv, token) ==
  Effect(Ret(PyNone), token, session, kv, {})

\* The token is written to the session and also set as a cookie.
SessionSaveWithCookie(response, session, kv, token) ==
  Effect(Ret(PyNone), token, token, kv, {})

\* SessionStorage._save_token: session[session_name] = token
SessionSave(response, session, kv, token) ==
  Effect(Ret(PyNone), response.set_cookie, token, kv, {})

\* RedisSessionStorage._save_token: redis_pool.set(get_key(request), token)
RedisSave(request, response, session, kv, token) ==
  IF request.token = Absent
  THEN Effect(Raise("KeyError"), response.set_cookie, session, kv, {})
  ELSE Effect(Ret(PyNone), response.set_cookie, session,
              StoreSet(kv, get_key(request), token),
              {get_key(request)})

\* storage._save_token(request, response, token) of the configured backend.
BackendSave(kind, request, response, session, kv, token) ==
  CASE kind = CookieStorage -> CookieSave(response, session, kv, token)
    [] kind = SessionStorage -> SessionSave(response, session, kv, token)
    [] OTHER -> RedisSave(request, response, session, kv, token)

\* Which awaited backend call of an operation fails, if any: within _get and
\* within _save_token, "session" is get_session(request) and "store" is the
\* redis_pool call.
NoFault == [read |-> "ok", write |-> "ok"]
Faults == [read : {"ok", "session", "store"}, write : {"ok", "session", "store"}]

\* storage._get(request) when an awaited call may fail: get_session comes
\* first (session and key-value backends); the store is asked after the key
\* is computed. The cookie backend awaits nothing.
BackendGetWith(kind, request, session, kv, fault) ==
  IF kind # CookieStorage /\ fault.read = "session"
  THEN [result |-> Raise("BackendError"), reads |-> {}]
  ELSE IF kind = RedisSessionStorage /\ fault.read = "store"
          /\ request.token # Absent
  THEN [result |-> Raise("BackendError"), reads |-> {get_key(request)}]
  ELSE BackendGet(kind, request, session, kv)

\* storage._save_token(request, response, token) when an awaited call may fail.
BackendSaveWith(kind, request, response, session, kv, token, fault) ==
  IF kind # CookieStorage /\ fault.write = "session"
  THEN Effect(Raise("BackendError"), response.set_cookie, session, kv, {})
  ELSE IF kind = RedisSessionStorage /\ fault.write = "store"
          /\ request.token # Absent
  THEN Effect(Raise("BackendError"), response.set_cookie, session, kv, {})
  ELSE BackendSave(kind, request, response, session, kv, token)

\* get returns the token generated for the response.
StorageGetNew(kind, request, session, kv, issued) ==
  LET g == BackendGet(kind, request, session, kv)
      n == GenerateNewToken(request, issued)
  IN IF g.result.kind = "raise"
     THEN [result |-> g.result, new_token |-> request.new_token,
           issued |-> issued, reads |-> g.reads, read_calls |-> 1]
     ELSE [result |-> Ret(n.ret), new_token |-> n.new_token,
           issued |-> n.issued, reads |-> g.reads, read_calls |-> 1]

\* get only reads: it generates no token for the response.
StorageGetReadOnly(kind, request, session, kv, issued) ==
  LET g == BackendGet(kind, request, session, kv)
  IN [result |-> g.result, new_token |-> request.new_token,
      issued |-> issued, reads |-> g.reads, read_calls |-> 1]

\* The token for the response is generated before the backend is read.
StorageGetGenerateFirst(kind, request, session, kv, issued, fault) ==
  LET g == BackendGetWith(kind, request, session, kv, fault)
      n == GenerateNewToken(request, issued)
  IN [result |-> g.result, new_token |-> n.new_token,
      issued |-> n.issued, reads |-> g.reads, read_calls |-> 1]

\* BaseStorage.get, with the awaited backend call that fails, if any: _get is
\* called once and its error leaves get before generate_new_token.
StorageGetWith(kind, request, session, kv, issued, fault) ==
  LET g == BackendGetWith(kind, request, session, kv, fault)
      n == GenerateNewToken(request, issued)
  IN IF g.result.kind = "raise"
     THEN [result |-> g.result, new_token |-> request.new_token,
           issued |-> issued, reads |-> g.reads, read_calls |-> 1]
     ELSE [result |-> g.result, new_token |-> n.new_token,
           issued |-> n.issued, reads |-> g.reads, read_calls |-> 1]

\* BaseStorage.get
StorageGet(kind, request, session, kv, issued) ==
  StorageGetWith(kind, request, session, kv, issued, NoFault)

\* A token is generated whenever the scratch slot is empty, whether or not
\* one is already persisted.
SaveDecisionAlways(request, old_token) ==
  IF HasNewToken(request) THEN "new_token" ELSE "generate"

\* Without a scratch token nothing is written, even when no token is persisted.
SaveDecisionNoGenerate(request, old_token) ==
  IF HasNewToken(request) THEN "new_token" ELSE "nothing"

\* The branch save_token takes (storage.py lines 73-78).
SaveDecision(request, old_token) ==
  IF HasNewToken(request) THEN "new_token"
  ELSE IF old_token = PyNone THEN "generate"
  ELSE "nothing"

\* BaseStorage.save_token, with the awaited backend calls that fail, if any:
\* _get is called once; _save_token is called once when there is a token to
\* write; an error of either leaves save_token at once.
SaveTokenWith(kind, request, response, session, kv, issued, fault) ==
  LET g == BackendGetWith(kind, request, session, kv, fault)
      old_token == g.result.value
      branch == SaveDecision(request, old_token)
      n == GenerateNewToken(request, issued)
      token == CASE branch = "new_token" -> request.new_token
                 [] branch = "generate" -> n.ret
                 [] OTHER -> PyNone
      w == BackendSaveWith(kind, request, response, session, kv, token, fault)
  IN IF g.result.kind = "raise"
     THEN [result |-> g.result, old_token |-> Absent, token |-> Absent,
           new_token |-> request.new_token, issued |-> issued,
           set_cookie |-> response.set_cookie, session |-> session, kv |-> kv,
           reads |-> g.reads, writes |-> {},
           read_calls |-> 1, write_calls |-> 0]
     ELSE IF token = PyNone
     THEN [result |-> Ret(PyNone), old_token |-> old_token, token |-> PyNone,
           new_token |-> request.new_token, issued |-> issued,
           set_cookie |-> response.set_cookie, session |-> session, kv |-> kv,
           reads |-> g.reads, writes |-> {},
           read_calls |-> 1, write_calls |-> 0]
     ELSE [result |-> w.result, old_token |-> old_token, token |-> token,
           new_token |-> IF branch = "generate" THEN n.new_token
                         ELSE request.new_token,
           issued |-> IF branch = "generate" THEN n.issued ELSE issued,
           set_cookie |-> w.set_cookie, session |-> w.session, kv |-> w.kv,
           reads |-> g.reads, writes |-> w.writes,
           read_calls |-> 1, write_calls |-> 1]

\* BaseStorage.save_token
SaveToken(kind, request, response, session, kv, issued) ==
  SaveTokenWith(kind, request, response, session, kv, issued, NoFault)

\* ------------------------------------------------------------- the machine
VARIABLES
  args,      \* the arguments the storage is constructed with
  storage,   \* the storage object: construction state, backend, generator
  request,   \* the request being served
  response,  \* its response
  jar,       \* the client's cookie (cookies mapping entry of cookie_name)
  session,   \* the client's session entry of session_name
  kv,        \* the key-value store
  issued,    \* tokens the generator has handed out so far
  served,    \* requests begun so far
  last,      \* the latest call and what it did
  hist,      \* what has happened within the request being served
  carried,   \* per persistence slot, the token the latest finished request wrote
  tasks,     \* the request handlers running concurrently, each with its request
  writelog   \* the backend writes of the concurrent handlers, in order

vars == <<args, storage, request, response, jar, session, kv, issued, served,
          last, hist, carried, tasks, writelog>>

\* Generators a caller may pass: none, instances of generator classes, some
\* other object, a str.
GeneratorArgs ==
  {PyNone, [t |-> "CustomTokenGenerator", v |-> <<>>],
   [t |-> "SimpleTokenGenerator", v |-> <<>>],
   [t |-> "object", v |-> <<>>], Str(<<115, 51>>)}

\* Secret phrases a caller may pass: none, the empty one, "s3", "s3cr3t".
SecretArgs ==
  {PyNone, Str(<<>>), Str(<<115, 51>>), Str(<<115, 51, 99, 114, 51, 116>>)}

\* The configurations the lifecycle runs are served under: the default
\* generator or a custom one, with or without the secret phrase "s3".
LifecycleArgs ==
  [token_generator : {PyNone, [t |-> "CustomTokenGenerator", v |-> <<>>]},
   secret_phrase : {PyNone, Str(<<115, 51>>)}]

NoArgs == [token_generator |-> Absent, secret_phrase |-> Absent]

\* request['token'] of a request: not set, "a" or "b".
Identifiers == {Absent, Str(<<97>>), Str(<<98>>)}

\* What a client may send as header, path parameter or form field: nothing,
\* the empty string, a token, or a string with a non-ASCII character.
Submitted == {Absent, Str(<<>>), Generate(1), Generate(2), Str(<<233>>)}

\* What the client of the lifecycle runs submits: nothing, or the first token.
ClientTokens == {Absent, Generate(1)}

\* The tokens on record a policy is asked to check against: none, the empty
\* string, or a token of the generator.
OriginalValues == {PyNone, Str(<<>>), Generate(1), Generate(2)}

IdleRequest ==
  [active |-> FALSE, new_token |-> Absent, cookies |-> Absent, token |-> Absent,
   headers |-> Absent, match_info |-> Absent, post |-> Absent]

NoCall ==
  [op |-> "none", result |-> Ret(PyNone), args |-> NoArgs, policy |-> "",
   original |-> Absent, new_token_before |-> Absent, issued_before |-> 0,
   old_token |-> Absent, token |-> Absent, reads |-> {}, writes |-> {},
   matchRead |-> FALSE, postAwaited |-> FALSE, prev_get |-> Absent,
   persisted_before |-> Absent, persisted_after |-> Absent,
   kv_before |-> <<>>, carried |-> Absent, before_write |-> FALSE,
   fault |-> NoFault, read_calls |-> 0, write_calls |-> 0]

NewHist ==
  [generated |-> 0, get_seen |-> Absent, written |-> Absent,
   flow |-> "begin", got |-> Absent, check_policy |-> "",
   check_result |-> Ret(PyNone)]

\* The persistence slot a request reads and writes: the store key for the
\* key-value backend, the one cookie or session entry otherwise.
Slot(kind, req) ==
  IF kind = RedisSessionStorage
  THEN (IF req.token = Absent THEN <<>> ELSE get_key(req))
  ELSE IF kind = CookieStorage THEN cookie_name
  ELSE session_name

Carried(c, slot) == IF slot \in DOMAIN c THEN c[slot] ELSE Absent

\* The str a stored value reads back as (None for a key never set).
Decoded(x) == IF x.t = "bytes" THEN Str(Utf8Decode(x.v)) ELSE x

\* The token on record for the request's client (and identifier) right now:
\* the cookie the client holds, its session entry, its store entry.
Stored(kind, req, j, sess, store) ==
  CASE kind = CookieStorage -> DictGet(j)
    [] kind = SessionStorage -> DictGet(sess)
    [] OTHER -> IF req.token = Absent THEN Absent
                ELSE Decoded(StoreLookup(store, session_name \o <<95>> \o req.token.v))

\* The token a following request of the same client (and identifier) finds:
\* a cookie the response sets replaces the one the client holds.
Persisted(kind, req, resp, j, sess, store) ==
  IF kind = CookieStorage /\ resp.set_cookie # Absent THEN resp.set_cookie
  ELSE Stored(kind, req, j, sess, store)

Init ==
  /\ args \in LifecycleArgs
  /\ storage \in [state : {"unbuilt"}, kind : StorageKinds,
                  token_generator : {Absent}]
  /\ request = IdleRequest
  /\ response = [set_cookie |-> Absent]
  /\ jar = Absent
  /\ session = Absent
  /\ kv = <<>>
  /\ issued = 0
  /\ served = 0
  /\ last = NoCall
  /\ hist = NewHist
  /\ carried = <<>>
  /\ tasks = <<>>
  /\ writelog = <<>>

\* storage = XStorage(..., token_generator=..., secret_phrase=...)
Construct ==
  /\ storage.state = "unbuilt"
  /\ LET r == BaseStorageInit(args.token_generator, args.secret_phrase)
     IN /\ storage' = [storage EXCEPT
                         !.state = IF r.result.kind = "return" THEN "ok"
                                   ELSE "failed",
                         !.token_generator = r.token_generator]
        /\ last' = [NoCall EXCEPT !.op = "construct", !.result = r.result,
                                  !.args = args]
  /\ args' = NoArgs
  /\ UNCHANGED <<tasks, writelog, request, response, jar, session, kv, issued, served, hist,
                 carried>>

\* A request of the client arrives, with the cookie the client holds. The
\* client sends no CSRF token, or one token both as header and as form field.
BeginRequest ==
  /\ storage.state = "ok"
  /\ ~request.active
  /\ served < MaxRequests
  /\ \E t \in ClientTokens,
        id \in (IF storage.kind = RedisSessionStorage THEN Identifiers
                ELSE {Absent}) :
       request' = [active |-> TRUE, new_token |-> Absent, cookies |-> jar,
                   token |-> id, headers |-> t, match_info |-> Absent,
                   post |-> t]
  /\ response' = [set_cookie |-> Absent]
  /\ served' = served + 1
  /\ hist' = NewHist
  /\ last' = [NoCall EXCEPT !.op = "begin"]
  /\ UNCHANGED <<tasks, writelog, args, storage, jar, session, kv, issued, carried>>

\* await storage.generate_new_token(request)
GenerateNewTokenCall ==
  /\ request.active
  /\ LET r == GenerateNewToken(request, issued)
     IN /\ request' = [request EXCEPT !.new_token = r.new_token]
        /\ issued' = r.issued
        /\ hist' = [hist EXCEPT !.generated = @ + (r.issued - issued),
                                !.flow = "other"]
        /\ last' = [NoCall EXCEPT !.op = "generate_new_token",
                                  !.result = Ret(r.ret),
                                  !.new_token_before = request.new_token,
                                  !.issued_before = issued]
  /\ UNCHANGED <<tasks, writelog, args, storage, response, jar, session, kv, served, carried>>

\* The state after storage.get(request) came back with outcome r.
GetStep(r, fault) ==
  /\ request.active
  /\ LET ok == r.result.kind = "return"
     IN /\ request' = [request EXCEPT !.new_token = r.new_token]
        /\ issued' = r.issued
        /\ hist' = [hist EXCEPT
                      !.generated = @ + (r.issued - issued),
                      !.get_seen = IF ok THEN r.result.value ELSE @,
                      !.flow = IF ok /\ hist.flow = "begin" THEN "get"
                               ELSE "other",
                      !.got = IF ok /\ hist.flow = "begin" THEN r.result.value
                              ELSE @]
        /\ last' = [NoCall EXCEPT
                      !.op = "get", !.result = r.result,
                      !.new_token_before = request.new_token,
                      !.issued_before = issued,
                      !.reads = r.reads,
                      !.prev_get = hist.get_seen,
                      !.before_write = hist.written = Absent,
                      !.carried = Carried(carried, Slot(storage.kind, request)),
                      !.kv_before = kv,
                      !.persisted_before =
                         Persisted(storage.kind, request, response, jar,
                                   session, kv),
                      !.fault = fault,
                      !.read_calls = r.read_calls]
  /\ UNCHANGED <<tasks, writelog, args, storage, response, jar, session, kv, served, carried>>

\* await storage.get(request)
GetCall ==
  GetStep(StorageGet(storage.kind, request, session, kv, issued), NoFault)

\* The state after storage.save_token(request, response) came back with
\* outcome r.
SaveTokenStep(r, fault) ==
  /\ request.active
  /\ LET wrote == r.result.kind = "return" /\ r.token.t = "str"
     IN /\ request' = [request EXCEPT !.new_token = r.new_token]
        /\ issued' = r.issued
        /\ response' = [set_cookie |-> r.set_cookie]
        /\ session' = r.session
        /\ kv' = r.kv
        /\ hist' = [hist EXCEPT
                      !.generated = @ + (r.issued - issued),
                      !.get_seen = IF wrote THEN Absent ELSE @,
                      !.written = IF wrote THEN r.token ELSE @,
                      !.flow = CASE r.result.kind = "raise" -> "other"
                                 [] hist.flow = "get" -> "get-save"
                                 [] hist.flow = "get-check" -> "get-check-save"
                                 [] OTHER -> "other"]
        /\ last' = [NoCall EXCEPT
                      !.op = "save_token", !.result = r.result,
                      !.new_token_before = request.new_token,
                      !.issued_before = issued,
                      !.old_token = r.old_token, !.token = r.token,
                      !.reads = r.reads, !.writes = r.writes,
                      !.kv_before = kv,
                      !.persisted_before =
                         Persisted(storage.kind, request, response, jar,
                                   session, kv),
                      !.persisted_after =
                         Persisted(storage.kind, request,
                                   [set_cookie |-> r.set_cookie], jar,
                                   r.session, r.kv),
                      !.fault = fault,
                      !.read_calls = r.read_calls,
                      !.write_calls = r.write_calls]
  /\ UNCHANGED <<tasks, writelog, args, storage, jar, served, carried>>

\* await storage.save_token(request, response)
SaveTokenCall ==
  SaveTokenStep(SaveToken(storage.kind, request, response, session, kv, issued),
                NoFault)

\* await policy.check(request, original_value): the token on record is None
\* or one the generator has handed out.
CheckCall ==
  /\ request.active
  /\ \E policy \in Policies,
        original_value \in {PyNone} \cup {Generate(i) : i \in 1..issued} :
       LET v == PolicyCheck(policy, request, original_value)
           piped == hist.flow = "get" /\ original_value = hist.got
       IN /\ last' = [NoCall EXCEPT
                        !.op = "check", !.result = v.result,
                        !.policy = policy, !.original = original_value,
                        !.new_token_before = request.new_token,
                        !.issued_before = issued,
                        !.matchRead = v.matchRead,
                        !.postAwaited = v.postAwaited]
          /\ hist' = [hist EXCEPT
                        !.flow = IF piped THEN "get-check" ELSE "other",
                        !.check_policy = IF piped THEN policy ELSE @,
                        !.check_result = IF piped THEN v.result ELSE @]
  /\ UNCHANGED <<tasks, writelog, args, storage, request, response, jar, session, kv, issued,
                 served, carried>>

\* The response goes out: the client keeps a cookie the response sets.
EndEffect ==
  /\ request.active
  /\ jar' = IF response.set_cookie # Absent THEN response.set_cookie ELSE jar
  /\ carried' =
       IF hist.written = Absent THEN carried
       ELSE LET slot == Slot(storage.kind, request)
            IN [k \in DOMAIN carried \cup {slot} |->
                  IF k = slot THEN hist.written ELSE carried[k]]
  /\ request' = IdleRequest
  /\ response' = [set_cookie |-> Absent]
  /\ hist' = NewHist
  /\ last' = [NoCall EXCEPT !.op = "end"]
  /\ UNCHANGED <<tasks, args, storage, session, kv, issued, served>>

EndRequest == EndEffect /\ UNCHANGED writelog

Next ==
  \/ Construct
  \/ BeginRequest
  \/ GenerateNewTokenCall
  \/ GetCall
  \/ SaveTokenCall
  \/ CheckCall
  \/ EndRequest

Spec == Init /\ [][Next]_vars

\* ------------------------------------------------------ construction alone
\* Any storage class constructed with any generator and secret phrase.
CtorInit ==
  /\ args \in [token_generator : GeneratorArgs, secret_phrase : SecretArgs]
  /\ storage \in [state : {"unbuilt"}, kind : StorageKinds,
                  token_generator : {Absent}]
  /\ request = IdleRequest
  /\ response = [set_cookie |-> Absent]
  /\ jar = Absent
  /\ session = Absent
  /\ kv = <<>>
  /\ issued = 0
  /\ served = 0
  /\ last = NoCall
  /\ hist = NewHist
  /\ carried = <<>>
  /\ tasks = <<>>
  /\ writelog = <<>>

CtorNext == Construct

CtorSpec == CtorInit /\ [][CtorNext]_vars

\* ------------------------------------------------- a backend that may fail
\* The lifecycle with the default generator, where any awaited backend call of
\* get and save_token may fail.
FaultInit ==
  /\ args = [token_generator |-> PyNone, secret_phrase |-> Str(<<115, 51>>)]
  /\ storage \in [state : {"unbuilt"}, kind : StorageKinds,
                  token_generator : {Absent}]
  /\ request = IdleRequest
  /\ response = [set_cookie |-> Absent]
  /\ jar = Absent
  /\ session = Absent
  /\ kv = <<>>
  /\ issued = 0
  /\ served = 0
  /\ last = NoCall
  /\ hist = NewHist
  /\ carried = <<>>
  /\ tasks = <<>>
  /\ writelog = <<>>

\* A request of the client arrives; it submits no CSRF token.
FaultBeginRequest ==
  /\ storage.state = "ok"
  /\ ~request.active
  /\ served < MaxFaultRequests
  /\ \E id \in (IF storage.kind = RedisSessionStorage THEN Identifiers
                ELSE {Absent}) :
       request' = [IdleRequest EXCEPT !.active = TRUE, !.cookies = jar,
                                      !.token = id]
  /\ response' = [set_cookie |-> Absent]
  /\ served' = served + 1
  /\ hist' = NewHist
  /\ last' = [NoCall EXCEPT !.op = "begin"]
  /\ UNCHANGED <<tasks, writelog, args, storage, jar, session, kv, issued, carried>>

\* await storage.get(request), where the read may fail.
FaultyGetCall ==
  \E fault \in Faults :
    /\ fault.write = "ok"
    /\ GetStep(StorageGetWith(storage.kind, request, session, kv, issued,
                              fault), fault)

\* await storage.save_token(request, response), where the read or the write
\* may fail.
FaultySaveTokenCall ==
  \E fault \in Faults :
    SaveTokenStep(SaveTokenWith(storage.kind, request, response, session, kv,
                                issued, fault), fault)

FaultNext ==
  \/ Construct
  \/ FaultBeginRequest
  \/ GenerateNewTokenCall
  \/ FaultyGetCall
  \/ FaultySaveTokenCall
  \/ EndRequest

FaultSpec == FaultInit /\ [][FaultNext]_vars

\* ------------------------------------------------------ concurrent requests
\* Two handlers serve two requests of one client at the same time, on a
\* session or key-value backend they share. A handler gives way to the other
\* at each await that reaches a collaborator: get_session, the store's get and
\* set. generate_new_token awaits nothing.
TaskIds == {1, 2}

\* The session and store identifiers of the concurrent requests: "a" or "b".
TaskIdentifiers == {Str(<<97>>), Str(<<98>>)}

NewTask(id) ==
  [pc |-> "idle", request |-> [IdleRequest EXCEPT !.active = TRUE, !.token = id],
   response |-> [set_cookie |-> Absent], old_token |-> Absent,
   token |-> Absent, calls |-> 0, generated |-> {}]

\* One scratch slot serves every request in flight.
TaskGenerateShared(ts, i, n) ==
  LET r == GenerateNewToken(ts[i].request, n)
  IN [tasks |-> [j \in DOMAIN ts |->
                   [ts[j] EXCEPT !.request.new_token = r.new_token,
                                 !.generated = IF j = i /\ r.issued > n
                                               THEN @ \cup {r.ret} ELSE @]],
      ret |-> r.ret, issued |-> r.issued]

\* generate_new_token(request) in handler i: only that handler's request is
\* touched.
TaskGenerate(ts, i, n) ==
  LET r == GenerateNewToken(ts[i].request, n)
  IN [tasks |-> [ts EXCEPT ![i].request.new_token = r.new_token,
                           ![i].generated = IF r.issued > n
                                            THEN @ \cup {r.ret} ELSE @],
      ret |-> r.ret, issued |-> r.issued]

\* The storage is built; the client has no token on record, or the token "1"
\* on record for the session and for identifier "a".
ConcInit ==
  /\ args = NoArgs
  /\ storage \in [state : {"ok"},
                  kind : {SessionStorage, RedisSessionStorage},
                  token_generator : {HashedTokenGenerator(Str(<<115, 51>>))}]
  /\ request = IdleRequest
  /\ response = [set_cookie |-> Absent]
  /\ jar = Absent
  /\ \E onRecord \in BOOLEAN :
       /\ issued = IF onRecord THEN 1 ELSE 0
       /\ session = IF onRecord /\ storage.kind = SessionStorage
                    THEN Generate(1) ELSE Absent
       /\ kv = IF onRecord /\ storage.kind = RedisSessionStorage
               THEN StoreSet(<<>>, session_name \o <<95, 97>>, Generate(1))
               ELSE <<>>
  /\ served = 0
  /\ last = NoCall
  /\ hist = NewHist
  /\ carried = <<>>
  /\ tasks \in [TaskIds -> {NewTask(id) :
                  id \in IF storage.kind = RedisSessionStorage
                         THEN TaskIdentifiers ELSE {Absent}}]
  /\ writelog = <<>>

ConcFrame ==
  UNCHANGED <<args, storage, request, response, jar, served, last, hist,
              carried>>

\* A handler calls storage.get(request).
TaskCallGet ==
  \E i \in TaskIds :
    /\ tasks[i].pc = "idle"
    /\ tasks[i].calls < MaxTaskCalls
    /\ tasks' = [tasks EXCEPT ![i].pc = "get:get_session", ![i].calls = @ + 1]
    /\ UNCHANGED <<session, kv, issued, writelog>>
    /\ ConcFrame

\* A handler calls storage.generate_new_token(request).
TaskCallGenerate ==
  \E i \in TaskIds :
    /\ tasks[i].pc = "idle"
    /\ tasks[i].calls < MaxTaskCalls
    /\ LET r == TaskGenerate(tasks, i, issued)
       IN /\ tasks' = [r.tasks EXCEPT ![i].calls = @ + 1]
          /\ issued' = r.issued
    /\ UNCHANGED <<session, kv, writelog>>
    /\ ConcFrame

\* A handler calls storage.save_token(request, response), its last call.
TaskCallSaveToken ==
  \E i \in TaskIds :
    /\ tasks[i].pc = "idle"
    /\ tasks' = [tasks EXCEPT ![i].pc = "save:get_session"]
    /\ UNCHANGED <<session, kv, issued, writelog>>
    /\ ConcFrame

\* await get_session(request) comes back, in _get or in _save_token.
TaskGetSession ==
  \E i \in TaskIds :
    /\ tasks[i].pc \in {"get:get_session", "save:get_session",
                        "save:write_session"}
    /\ tasks' = [tasks EXCEPT ![i].pc =
                   CASE @ = "get:get_session" -> "get:read"
                     [] @ = "save:get_session" -> "save:read"
                     [] OTHER -> "save:write"]
    /\ UNCHANGED <<session, kv, issued, writelog>>
    /\ ConcFrame

\* get: token = await self._get(request)
TaskGetRead ==
  \E i \in TaskIds :
    /\ tasks[i].pc = "get:read"
    /\ LET g == BackendGet(storage.kind, tasks[i].request, session, kv)
       IN tasks' = [tasks EXCEPT ![i].pc = "get:generate",
                                 ![i].old_token = g.result.value]
    /\ UNCHANGED <<session, kv, issued, writelog>>
    /\ ConcFrame

\* get: await self.generate_new_token(request); return token
TaskGetGenerate ==
  \E i \in TaskIds :
    /\ tasks[i].pc = "get:generate"
    /\ LET r == TaskGenerate(tasks, i, issued)
       IN /\ tasks' = [r.tasks EXCEPT ![i].pc = "idle"]
          /\ issued' = r.issued
    /\ UNCHANGED <<session, kv, writelog>>
    /\ ConcFrame

\* save_token: old_token = await self._get(request)
TaskSaveRead ==
  \E i \in TaskIds :
    /\ tasks[i].pc = "save:read"
    /\ LET g == BackendGet(storage.kind, tasks[i].request, session, kv)
       IN tasks' = [tasks EXCEPT ![i].pc = "save:decide",
                                 ![i].old_token = g.result.value]
    /\ UNCHANGED <<session, kv, issued, writelog>>
    /\ ConcFrame

\* save_token: the choice of the token to write (storage.py lines 73-78).
TaskSaveDecide ==
  \E i \in TaskIds :
    /\ tasks[i].pc = "save:decide"
    /\ LET branch == SaveDecision(tasks[i].request, tasks[i].old_token)
           r == TaskGenerate(tasks, i, issued)
           token == CASE branch = "new_token" -> tasks[i].request.new_token
                      [] branch = "generate" -> r.ret
                      [] OTHER -> PyNone
           ts == IF branch = "generate" THEN r.tasks ELSE tasks
       IN /\ tasks' = [ts EXCEPT ![i].token = token,
                                 ![i].pc = IF token = PyNone THEN "done"
                                           ELSE "save:write_session"]
          /\ issued' = IF branch = "generate" THEN r.issued ELSE issued
    /\ UNCHANGED <<session, kv, writelog>>
    /\ ConcFrame

\* save_token: the write of _save_token reaches the backend.
TaskSaveWrite ==
  \E i \in TaskIds :
    /\ tasks[i].pc = "save:write"
    /\ LET w == BackendSave(storage.kind, tasks[i].request, tasks[i].response,
                            session, kv, tasks[i].token)
       IN /\ session' = w.session
          /\ kv' = w.kv
    /\ writelog' = Append(writelog,
                          [task |-> i,
                           slot |-> Slot(storage.kind, tasks[i].request),
                           value |-> tasks[i].token,
                           scratch |-> tasks[i].request.new_token])
    /\ tasks' = [tasks EXCEPT ![i].pc = "done"]
    /\ UNCHANGED issued
    /\ ConcFrame

ConcNext ==
  \/ TaskCallGet
  \/ TaskCallGenerate
  \/ TaskCallSaveToken
  \/ TaskGetSession
  \/ TaskGetRead
  \/ TaskGetGenerate
  \/ TaskSaveRead
  \/ TaskSaveDecide
  \/ TaskSaveWrite

ConcSpec == ConcInit /\ [][ConcNext]_vars

\* --------------------------------------------------------------- the pipeline
\* Every request runs get, then check against the value get returned, then
\* save_token. The client submits, as header and as form field, no token or
\* any token handed out so far.
PipeInit ==
  /\ args = [token_generator |-> PyNone, secret_phrase |-> Str(<<115, 51>>)]
  /\ storage \in [state : {"unbuilt"}, kind : StorageKinds,
                  token_generator : {Absent}]
  /\ request = IdleRequest
  /\ response = [set_cookie |-> Absent]
  /\ jar = Absent
  /\ session = Absent
  /\ kv = <<>>
  /\ issued = 0
  /\ served = 0
  /\ last = NoCall
  /\ hist = NewHist
  /\ carried = <<>>
  /\ tasks = <<>>
  /\ writelog = <<>>

PipeBeginRequest ==
  /\ storage.state = "ok"
  /\ ~request.active
  /\ served < MaxPipeRequests
  /\ \E t \in {Absent} \cup {Generate(i) : i \in 1..issued},
        id \in (IF storage.kind = RedisSessionStorage THEN TaskIdentifiers
                ELSE {Absent}) :
       request' = [active |-> TRUE, new_token |-> Absent, cookies |-> jar,
                   token |-> id, headers |-> t, match_info |-> Absent,
                   post |-> t]
  /\ response' = [set_cookie |-> Absent]
  /\ served' = served + 1
  /\ hist' = NewHist
  /\ last' = [NoCall EXCEPT !.op = "begin"]
  /\ UNCHANGED <<tasks, writelog, args, storage, jar, session, kv, issued,
                 carried>>

\* token = await storage.get(request)
PipeGet == hist.flow = "begin" /\ GetCall

\* await policy.check(request, token)
PipeCheck == hist.flow = "get" /\ CheckCall /\ hist'.flow = "get-check"

\* await storage.save_token(request, response)
PipeSave == hist.flow = "get-check" /\ SaveTokenCall

\* The response goes out; what the request did is kept on record.
PipeEnd ==
  /\ hist.flow = "get-check-save"
  /\ EndEffect
  /\ writelog' = Append(writelog,
                        [task |-> served,
                         slot |-> Slot(storage.kind, request),
                         value |-> hist.written,
                         scratch |-> request.new_token,
                         got |-> hist.got,
                         submitted |-> request.headers,
                         policy |-> hist.check_policy,
                         verdict |-> hist.check_result])

PipeNext ==
  \/ Construct
  \/ PipeBeginRequest
  \/ PipeGet
  \/ PipeCheck
  \/ PipeSave
  \/ PipeEnd

PipeSpec == PipeInit /\ [][PipeNext]_vars

\* ------------------------------------------------- the policies on their own
\* Any request: header, path parameter and form field each absent, empty, a
\* token or non-ASCII. No storage is involved.
PolicyInit ==
  /\ args = NoArgs
  /\ storage = [state |-> "none", kind |-> CookieStorage,
                token_generator |-> Absent]
  /\ request \in [active : {TRUE}, new_token : {Absent}, cookies : {Absent},
                  token : {Absent}, headers : Submitted,
                  match_info : Submitted, post : Submitted]
  /\ response = [set_cookie |-> Absent]
  /\ jar = Absent
  /\ session = Absent
  /\ kv = <<>>
  /\ issued = 0
  /\ served = 1
  /\ last = NoCall
  /\ hist = NewHist
  /\ carried = <<>>
  /\ tasks = <<>>
  /\ writelog = <<>>

\* await policy.check(request, original_value), for any policy and any token
\* on record.
PolicyCheckCall ==
  /\ \E policy \in Policies, original_value \in OriginalValues :
       LET v == PolicyCheck(policy, request, original_value)
       IN last' = [NoCall EXCEPT
                     !.op = "check", !.result = v.result,
                     !.policy = policy, !.original = original_value,
                     !.matchRead = v.matchRead,
                     !.postAwaited = v.postAwaited]
  /\ UNCHANGED <<tasks, writelog, args, storage, request, response, jar, session, kv, issued,
                 served, hist, carried>>

PolicyNext == PolicyCheckCall

PolicySpec == PolicyInit /\ [][PolicyNext]_vars

\* ------------------------------------------------------------------- claims
SaveReturned == last.op = "save_token" /\ last.result.kind = "return"
GetReturned == last.op = "get" /\ last.result.kind = "return"
CheckDone == last.op = "check"

\* C1: save_token re-reads the persisted token and then (1) writes the scratch
\* token when the scratch slot held one, (2) else, when no token was persisted,
\* generates one, stores it in the scratch slot and writes it, (3) else writes
\* nothing and leaves the persisted token as it was. A persisted token is never
\* overwritten by a save_token called with an empty scratch slot.
C1_SaveTokenTriState ==
  SaveReturned =>
    LET after == Persisted(storage.kind, request, response, jar, session, kv)
    IN /\ last.new_token_before # Absent =>
            /\ last.token = last.new_token_before
            /\ after = last.token
            /\ issued = last.issued_before
       /\ (last.new_token_before = Absent /\ last.old_token = PyNone) =>
            /\ issued = last.issued_before + 1
            /\ last.token = Generate(issued)
            /\ request.new_token = last.token
            /\ after = last.token
       /\ (last.new_token_before = Absent /\ last.old_token # PyNone) =>
            /\ last.token = PyNone
            /\ last.writes = {}
            /\ issued = last.issued_before
            /\ request.new_token = Absent
            /\ after = last.persisted_before
            /\ after = last.old_token

\* A save_token with an empty scratch slot found a persisted token and wrote
\* nothing.
C1_Witness ==
  /\ SaveReturned
  /\ last.new_token_before = Absent
  /\ last.old_token.t = "str"
  /\ last.token = PyNone

\* C2: within one request the generator is invoked at most once; the first
\* call that needs a token stores it in the scratch slot, a later
\* generate_new_token returns that value, and the slot, once set, keeps its
\* value for the rest of the request.
C2_GenerateOncePerRequest ==
  /\ [](request.active =>
          /\ hist.generated <= 1
          /\ (request.new_token # Absent) <=> (hist.generated = 1))
  /\ [](last.op \in {"generate_new_token", "get", "save_token"} =>
          /\ issued > last.issued_before =>
               /\ last.new_token_before = Absent
               /\ request.new_token = Generate(issued)
          /\ last.new_token_before # Absent =>
               request.new_token = last.new_token_before)
  /\ [](last.op = "generate_new_token" =>
          /\ last.result = Ret(request.new_token)
          /\ request.new_token # Absent)
  /\ [][(request.active /\ request'.active /\ request.new_token # Absent)
          => request'.new_token = request.new_token]_vars

\* generate_new_token was called with the scratch slot already set.
C2_Witness ==
  /\ last.op = "generate_new_token"
  /\ last.new_token_before.t = "str"
  /\ last.result.value = last.new_token_before

PipelineSaved == SaveReturned /\ hist.flow \in {"get-save", "get-check-save"}

\* The first request of the cookie scenario: no cookie, get returned None and
\* save_token set the cookie to the generated token.
C4_FirstRequest ==
  (storage.kind = CookieStorage /\ PipelineSaved /\ request.cookies = Absent) =>
    /\ hist.got = PyNone
    /\ response.set_cookie = request.new_token
    /\ response.set_cookie = Generate(issued)

\* The second request's check: cookie T and form field T, FormPolicy against
\* the token get returned.
C4_SecondCheck ==
  (/\ storage.kind = CookieStorage
   /\ CheckDone /\ hist.flow = "get-check" /\ last.policy = FormPolicy
   /\ request.cookies.t = "str"
   /\ request.match_info = Absent /\ request.post = request.cookies) =>
    /\ last.original = request.cookies
    /\ last.result = Ret(PyTrue)

SecondRequestSaved ==
  /\ storage.kind = CookieStorage
  /\ SaveReturned /\ hist.flow = "get-check-save"
  /\ hist.check_policy = FormPolicy /\ hist.check_result = Ret(PyTrue)
  /\ request.cookies.t = "str" /\ request.post = request.cookies

\* C4 as stated: in the pipeline flow (get, check, save_token) the first
\* request gets the cookie set to a generated token, and the second request,
\* which presents that cookie and the same form field, passes the check and
\* gets no cookie set.
C4_AsStated ==
  /\ C4_FirstRequest
  /\ C4_SecondCheck
  /\ SecondRequestSaved => response.set_cookie = Absent

\* C4 amended: the first request and the check are as stated, but the second
\* request's save_token sets the cookie to the token get generated in that
\* request, which differs from the cookie presented; save_token writes exactly
\* when the scratch slot holds a token (from get or generate_new_token) or no
\* token was persisted.
C4_RotatesAfterGet ==
  /\ C4_FirstRequest
  /\ C4_SecondCheck
  /\ SecondRequestSaved =>
       /\ response.set_cookie = request.new_token
       /\ response.set_cookie.t = "str"
       /\ response.set_cookie # request.cookies
  /\ SaveReturned =>
       ((last.token # PyNone) <=>
          (last.new_token_before # Absent \/ last.old_token = PyNone))

\* The second request of the scenario has been saved.
C4_Witness == SecondRequestSaved /\ served = 2

\* C5: the first get of a request (before any write of that request) returns
\* the token the latest save_token that wrote for this client (cookie,
\* session, store key) had written in an earlier request, and None when
\* none ever wrote; this holds for the cookie, session and key-value backends.
C5_RoundTrip ==
  (GetReturned /\ last.before_write) =>
    last.result.value = DictGet(last.carried)

\* The third request's get on the key-value backend returned the token an
\* earlier request had written under its identifier.
C5_Witness ==
  /\ GetReturned /\ last.before_write
  /\ storage.kind = RedisSessionStorage
  /\ last.carried.t = "str"
  /\ last.result.value = last.carried
  /\ served = 3

\* The value a policy takes from the request: the header for HeaderPolicy;
\* for FormPolicy the path parameter, or the form field when there is none.
SubmittedValue(policy, req) ==
  IF policy = HeaderPolicy THEN req.headers
  ELSE IF req.match_info # Absent THEN req.match_info
  ELSE req.post

\* C6: with the submitted token missing (HeaderPolicy: no header; FormPolicy:
\* neither path parameter nor form field), check returns False for every
\* non-empty original_value; it neither returns True nor raises.
C6_FailsClosedOnMissing ==
  (/\ CheckDone
   /\ last.policy \in {HeaderPolicy, FormPolicy}
   /\ SubmittedValue(last.policy, request) = Absent
   /\ last.original.t = "str" /\ Len(last.original.v) > 0) =>
    last.result = Ret(PyFalse)

C9_ConstructionErrors ==
  last.op = "construct" =>
    LET tg == last.args.token_generator
        sp == last.args.secret_phrase
        bad == \/ tg = PyNone /\ sp = PyNone
               \/ tg # PyNone /\ tg.t \in {"object", "str"}
    IN /\ (last.result.kind = "raise") <=> bad
       /\ bad => /\ last.result = Raise("TypeError")
                 /\ storage.state = "failed"
                 /\ storage.token_generator = Absent
       /\ ~bad => /\ last.result = Ret(PyNone)
                  /\ storage.state = "ok"
                  /\ storage.token_generator =
                       IF tg # PyNone THEN tg
                       ELSE [t |-> "HashedTokenGenerator", v |-> sp.v]

\* A non-generator object was passed together with a secret phrase.
C9_Witness ==
  /\ last.op = "construct"
  /\ last.args.token_generator.t = "object"
  /\ last.args.secret_phrase.t = "str"
  /\ last.result.kind = "raise"

\* C10: on the key-value backend, get and save_token of a request without
\* identifier raise and reach the store neither for a read nor for a write;
\* with an identifier they read and write only the key made of the configured
\* name, "_" and that identifier, get returns what is stored under it, and
\* every other key keeps its value.
C10_KeyedByIdentifier ==
  (storage.kind = RedisSessionStorage /\ last.op \in {"get", "save_token"}) =>
    IF request.token = Absent
    THEN /\ last.result = Raise("KeyError")
         /\ last.reads = {} /\ last.writes = {}
         /\ kv = last.kv_before
         /\ request.new_token = last.new_token_before
    ELSE LET key == session_name \o <<95>> \o request.token.v
         IN /\ last.result.kind = "return"
            /\ last.reads = {key}
            /\ last.writes \subseteq {key}
            /\ (last.token.t = "str") <=> (last.writes = {key})
            /\ last.op = "get" =>
                 last.result.value = Decoded(StoreLookup(kv, key))
            /\ \A k \in (DOMAIN kv \cup DOMAIN last.kv_before) \ {key} :
                 StoreLookup(kv, k) = StoreLookup(last.kv_before, k)

\* A request with identifier "b" wrote its token while a different token is
\* stored for identifier "a".
C10_Witness ==
  /\ storage.kind = RedisSessionStorage
  /\ last.op = "save_token"
  /\ request.token = Str(<<98>>)
  /\ last.writes = {session_name \o <<95, 98>>}
  /\ (session_name \o <<95, 97>>) \in DOMAIN kv
  /\ kv[session_name \o <<95, 97>>] # kv[session_name \o <<95, 98>>]

\* The awaited read of the last call failed: get_session for the session and
\* key-value backends, or the store's get once the key was computed.
ReadFailed ==
  \/ storage.kind # CookieStorage /\ last.fault.read = "session"
  \/ /\ storage.kind = RedisSessionStorage
     /\ last.fault.read = "store"
     /\ request.token # Absent

\* The awaited write of the last call fails if it is attempted.
WriteFails ==
  \/ storage.kind # CookieStorage /\ last.fault.write = "session"
  \/ /\ storage.kind = RedisSessionStorage
     /\ last.fault.write = "store"
     /\ request.token # Absent

\* C11: a failing backend read makes get fail with that error, with no token
\* generated for the response; a failing read makes save_token fail with
\* nothing written; a failing write reaches the caller of save_token; and no
\* operation calls the backend's read or write a second time.
C11_FailuresPropagate ==
  /\ (last.op = "get" /\ ReadFailed) =>
       /\ last.result = Raise("BackendError")
       /\ request.new_token = last.new_token_before
       /\ issued = last.issued_before
       /\ last.read_calls = 1
  /\ (last.op = "save_token" /\ ReadFailed) =>
       /\ last.result = Raise("BackendError")
       /\ last.writes = {} /\ last.write_calls = 0
       /\ last.read_calls = 1
       /\ last.persisted_after = last.persisted_before
       /\ kv = last.kv_before
       /\ request.new_token = last.new_token_before
       /\ issued = last.issued_before
  /\ (last.op = "save_token" /\ ~ReadFailed /\ WriteFails
        /\ last.token.t = "str") =>
       /\ last.result = Raise("BackendError")
       /\ last.read_calls = 1 /\ last.write_calls = 1
       /\ last.writes = {}
       /\ last.persisted_after = last.persisted_before
       /\ kv = last.kv_before
  /\ last.op \in {"get", "save_token"} =>
       /\ last.read_calls = 1
       /\ last.write_calls <= 1

\* save_token generated a token, its write failed, and the error came out.
C11_Witness ==
  /\ last.op = "save_token"
  /\ ~ReadFailed /\ WriteFails
  /\ last.token.t = "str"
  /\ last.new_token_before = Absent
  /\ last.result = Raise("BackendError")

\* C13: FormAndHeaderPolicy.check, for a request whose header is absent or
\* differs from original_value, gives exactly the verdict of FormPolicy.check;
\* so it returns True when the path parameter or form field equals
\* original_value.
C13_FallsBackToForm ==
  (/\ CheckDone
   /\ last.policy = FormAndHeaderPolicy
   /\ request.headers # last.original) =>
    /\ last.result = FormPolicyCheck(request, last.original).result
    /\ SubmittedValue(FormPolicy, request) = last.original =>
         last.result = Ret(PyTrue)

\* C14: FormPolicy.check with the path parameter present never parses the
\* body and ignores the form field: a path parameter that differs from
\* original_value gives False even though the form field equals it. With the
\* path parameter absent the body is parsed and the form field is compared.
C14_PathParameterFirst ==
  (/\ CheckDone
   /\ last.policy = FormPolicy
   /\ last.original.t = "str") =>
    IF request.match_info # Absent
    THEN /\ ~last.postAwaited
         /\ (request.match_info # last.original
               /\ request.post = last.original) =>
              last.result = Ret(PyFalse)
    ELSE /\ last.postAwaited
         /\ request.post = last.original => last.result = Ret(PyTrue)

\* C14, the order alone: the path parameter is read first; when it is present
\* the body is not parsed and the verdict is that of the path parameter, and
\* when it is absent the body is parsed and the verdict is that of the form
\* field.
C14_SourceOrder ==
  (CheckDone /\ last.policy = FormPolicy) =>
    /\ last.matchRead
    /\ last.postAwaited <=> (request.match_info = Absent)
    /\ last.result =
         compare_digest(IF request.match_info # Absent THEN request.match_info
                        ELSE DictGet(request.post), last.original)

\* C15: with no token on record (original_value is None) check of every
\* policy never returns a true value, whether the submitted value is present,
\* empty or absent.
C15_AbsentOriginalNeverTrue ==
  (CheckDone /\ last.original = PyNone) =>
    ~(last.result.kind = "return" /\ Truthy(last.result.value))

\* HeaderPolicy checked a request without the header against no token on
\* record: both sides of the comparison are None.
C15_Witness ==
  /\ CheckDone
  /\ last.policy = HeaderPolicy
  /\ last.original = PyNone
  /\ request.headers = Absent
  /\ last.result.kind = "raise"

\* C16: two requests served concurrently on a shared backend. A request's
\* scratch slot only ever holds a token generated within that request; every
\* value a save_token writes is the scratch token of its own request; and the
\* token on record in a slot is the scratch token of the request that wrote
\* the slot last.
C16_ScratchIsPrivate ==
  /\ \A i \in DOMAIN tasks :
       /\ tasks[i].request.new_token # Absent =>
            tasks[i].request.new_token \in tasks[i].generated
       /\ \A j \in DOMAIN tasks \ {i} :
            tasks[i].generated \cap tasks[j].generated = {}
  /\ \A k \in 1..Len(writelog) :
       LET e == writelog[k]
       IN /\ e.value = e.scratch
          /\ e.value = tasks[e.task].request.new_token
          /\ e.value \in tasks[e.task].generated
          /\ (\A m \in (k + 1)..Len(writelog) : writelog[m].slot # e.slot) =>
               Stored(storage.kind, tasks[e.task].request, jar, session, kv)
                 = tasks[e.task].request.new_token

\* Both requests have finished; each read the backend before the other wrote
\* (both saw no token on record) and both wrote the same slot.
C16_Witness ==
  /\ DOMAIN tasks = TaskIds
  /\ \A i \in TaskIds : tasks[i].pc = "done" /\ tasks[i].old_token = PyNone
  /\ Len(writelog) = 2
  /\ writelog[1].slot = writelog[2].slot
  /\ writelog[1].task # writelog[2].task
  /\ writelog[1].value # writelog[2].value

\* The record of the next request after the k-th that used the same slot, or
\* 0 when there is none.
NextOnSlot(k) ==
  LET later == {m \in (k + 1)..Len(writelog) :
                  writelog[m].slot = writelog[k].slot}
  IN IF later = {} THEN 0
     ELSE CHOOSE m \in later : \A x \in later : m <= x

\* C17: requests that each run get, check against get's value and save_token.
\* The token generate_new_token produced in request n is the token save_token
\* persists in request n; request n+1 of the same client gets it from get and
\* check accepts it there; request n+1 persists another token, so that in
\* request n+2 check rejects it.
C17_TokenChain ==
  \A k \in 1..Len(writelog) :
    LET e == writelog[k]
        m == NextOnSlot(k)
    IN /\ e.value.t = "str"
       /\ e.value = e.scratch
       /\ m # 0 =>
            LET f == writelog[m]
                p == NextOnSlot(m)
            IN /\ f.got = e.value
               /\ f.submitted = e.value => f.verdict = Ret(PyTrue)
               /\ f.value # e.value
               /\ p # 0 =>
                    LET g == writelog[p]
                    IN /\ g.got = f.value
                       /\ g.submitted = e.value => g.verdict = Ret(PyFalse)

\* Three requests of one client have finished: the second submitted the
\* first one's token and was accepted, the third submitted it again and was
\* rejected.
C17_Witness ==
  /\ Len(writelog) = 3
  /\ NextOnSlot(1) = 2 /\ NextOnSlot(2) = 3
  /\ writelog[2].submitted = writelog[1].value
  /\ writelog[2].verdict = Ret(PyTrue)
  /\ writelog[3].submitted = writelog[1].value
  /\ writelog[3].verdict = Ret(PyFalse)

\* C18: after a save_token that returns, the state the next request of the
\* client reads holds a token, never None, whatever calls of get and
\* generate_new_token came before it in the request (none included); and the
\* next request's get returns that token.
C18_SavedStateHoldsToken ==
  /\ SaveReturned =>
       /\ last.persisted_after.t = "str"
       /\ Len(last.persisted_after.v) > 0
  /\ (GetReturned /\ last.carried # Absent /\ last.before_write) =>
       last.result.value = last.carried

\* save_token returned in a second request that called neither get nor
\* generate_new_token: it wrote nothing and the token on record stays.
C18_Witness ==
  /\ SaveReturned
  /\ served = 2
  /\ last.new_token_before = Absent
  /\ last.token = PyNone
  /\ last.writes = {}
  /\ last.persisted_after.t = "str"
  /\ last.persisted_after = last.persisted_before

\* The number of persisted places a step changes: the response's cookie, the
\* session entry, and each key of the store.
PlacesWritten ==
  (IF response'.set_cookie # response.set_cookie THEN 1 ELSE 0)
  + (IF session' # session THEN 1 ELSE 0)
  + Cardinality({k \in DOMAIN kv' : StoreLookup(kv, k) # kv'[k]})

\* C19: get and generate_new_token change nothing but the request's scratch
\* slot (and use up the generator's token); check changes neither the scratch
\* slot nor anything persisted; save_token is the only operation that writes
\* the backend, and it writes at most one place per call.
C19_Frame ==
  [][/\ last'.op \in {"get", "generate_new_token"} =>
          /\ UNCHANGED <<response, jar, session, kv>>
          /\ request' = [request EXCEPT !.new_token = request'.new_token]
     /\ last'.op = "check" =>
          UNCHANGED <<request, response, jar, session, kv, issued>>
     /\ last'.op = "save_token" =>
          /\ PlacesWritten <= 1
          /\ last'.write_calls <= 1
          /\ PlacesWritten = 1 => last'.write_calls = 1
          /\ jar' = jar
     /\ last'.op \notin {"save_token"} =>
          /\ UNCHANGED <<session, kv>>
          /\ response'.set_cookie \in {response.set_cookie, Absent}
    ]_vars

\* get filled the scratch slot of a request whose client has a token on
\* record, and the record is as it was.
C19_Witness ==
  /\ GetReturned
  /\ last.new_token_before = Absent
  /\ request.new_token.t = "str"
  /\ last.persisted_before.t = "str"
  /\ Persisted(storage.kind, request, response, jar, session, kv)
       = last.persisted_before

====
